---- MODULE Spec2Model ----
(***************************************************************************)
(* A model of the web-read-advanced pipeline step: the crawl loop of       *)
(* WebCrawler (crawler.py), the shared RateLimiter (rate_limiter.py) and   *)
(* TemplateResolver.resolve (template_resolver.py).                        *)
(*                                                                         *)
(* Strings are sequences of tokens.  A token is a literal piece of text    *)
(* or the whole text of one placeholder, "${expr}".  A parsed JSON         *)
(* document is given by what jsonpath finds in it: a function from         *)
(* placeholder text to the sequence of str(value) of its matches, in       *)
(* document order.  Time is counted in ticks of 1/TicksPerSecond seconds.  *)
(***************************************************************************)
EXTENDS Integers, Sequences, FiniteSets, TLC

\* ------------------------------------------------------------- bounds
\* Ticks per second: the resolution of the model's clock.
TicksPerSecond == 10
\* The largest concurrency a configuration asks for.
MaxWorkers == 2
\* The longest template, in tokens, and the most matches of one path that
\* resolve is tried on.
MaxTemplateLen == 3
MaxMatches == 2

\* ------------------------------------------------- template_resolver.py

Placeholders == {"${a}", "${b}", "${!}", "${id}", "${next}"}

IsPlaceholder(tok) == tok \in Placeholders

\* re.findall(r'\$\{([^}]+)\}', template): every occurrence, left to right.
FindAll(template) == SelectSeq(template, IsPlaceholder)

\* jsonpath_ng.parse raises on an expression that is no JSONPath.
ParseFails(ph) == ph = "${!}"

\* parse(expr).find(json_data): the matches, in document order.
Find(ph, doc) == IF ph \in DOMAIN doc THEN doc[ph] ELSE << >>

\* A replace that stops after the first occurrence: replace(old, new, 1).
RECURSIVE ReplaceFirst(_, _, _)
ReplaceFirst(s, ph, v) ==
    IF s = << >> THEN << >>
    ELSE IF Head(s) = ph THEN v \o Tail(s)
    ELSE << Head(s) >> \o ReplaceFirst(Tail(s), ph, v)

\* result.replace('${expr}', str(value)): every occurrence of the
\* placeholder text in result, whatever put it there.
RECURSIVE Replace(_, _, _)
Replace(s, ph, v) ==
    IF s = << >> THEN << >>
    ELSE (IF Head(s) = ph THEN v ELSE << Head(s) >>) \o Replace(Tail(s), ph, v)

\* The two loops nested the other way round.
ExpandValuesOutside(results, ph, values) ==
    [n \in 1..(Len(results) * Len(values)) |->
        Replace(results[((n - 1) % Len(results)) + 1], ph,
                values[((n - 1) \div Len(results)) + 1])]

\* for result in results: for value in values: new_results.append(...)
Expand(results, ph, values) ==
    [n \in 1..(Len(results) * Len(values)) |->
        Replace(results[((n - 1) \div Len(values)) + 1], ph,
                values[((n - 1) % Len(values)) + 1])]

\* A loop that leaves a placeholder without a match in place and goes on.
RECURSIVE ResolveLoopLenient(_, _, _)
ResolveLoopLenient(results, matches, doc) ==
    IF matches = << >> THEN results
    ELSE LET ph == Head(matches) IN
         IF ParseFails(ph) THEN << >>
         ELSE IF Find(ph, doc) = << >>
              THEN ResolveLoopLenient(results, Tail(matches), doc)
         ELSE ResolveLoopLenient(Expand(results, ph, Find(ph, doc)),
                                 Tail(matches), doc)

\* The loop over the expressions found in the template.
RECURSIVE ResolveLoop(_, _, _)
ResolveLoop(results, matches, doc) ==
    IF matches = << >> THEN results
    ELSE LET ph == Head(matches) IN
         IF ParseFails(ph) THEN << >>
         ELSE IF Find(ph, doc) = << >> THEN << >>
         ELSE ResolveLoop(Expand(results, ph, Find(ph, doc)), Tail(matches), doc)

Resolve(template, doc) ==
    IF template = << >> THEN << >>
    ELSE ResolveLoop(<< template >>, FindAll(template), doc)

\* ---------------------------------------------------------- the web
\* URLs are strings of one token.  What a GET of each URL returns when the
\* server answers 200 with a JSON body: the matches of each path.
U1 == << "u1" >>
U2 == << "u2" >>
U3 == << "u3" >>
Urls == {U1, U2, U3}

\* An acyclic site: u1 links to u2 and u3, u2 links to u3, u3 to nothing.
AcyclicWeb(url) ==
    CASE url = U1 -> [x \in {"${id}", "${next}"} |->
                         IF x = "${id}" THEN << << "1" >> >> ELSE << U2, U3 >>]
      [] url = U2 -> [x \in {"${id}", "${next}"} |->
                         IF x = "${id}" THEN << << "2" >> >> ELSE << U3 >>]
      [] OTHER    -> [x \in {"${id}"} |-> << << "3" >> >>]

\* The same site with u3 linking back to u1.
CyclicWeb(url) ==
    IF url = U3
    THEN [x \in {"${id}", "${next}"} |->
             IF x = "${id}" THEN << << "3" >> >> ELSE << U1 >>]
    ELSE AcyclicWeb(url)

\* -------------------------------------------------------- crawler.py
Main == 0
Feeder == -1
Workers == 1..MaxWorkers
Threads == {Main, Feeder} \cup Workers

None == << >>

VARIABLES
    cfg,                \* step.config and step.input, fixed for the run
    pc,                 \* where each thread is
    arg,                \* add_url's url, per calling thread
    seed_i,             \* crawl's position in seed_urls
    feed_i,             \* load_input's position in records
    cur,                \* worker: the url it dequeued
    todo,               \* worker: continue_urls not yet passed to add_url
    url_queue,          \* Queue: the entries put and not yet got
    unfinished_tasks,   \* Queue: puts minus task_dones
    seen_urls,          \* the seen set
    stop_event,         \* the shutdown flag
    results,            \* the results sink
    processed_count,
    error_count,
    last_request_time,  \* RateLimiter
    now,                \* time.time()
    lock,               \* RateLimiter.lock: the set of threads holding it
    wake,               \* worker: when its time.sleep in acquire ends
    \* history, read by no action
    interrupted,        \* a KeyboardInterrupt reached crawl()
    grants,             \* the times of the rate limiter's grants, in order
    acquired,           \* worker: acquire() returned for the url in hand
    dequeued,           \* worker: number of successful gets
    completed,          \* worker: number of task_done calls
    fetched,            \* worker: how the fetch of the url in hand ended
    pushes,             \* for each url, how often it was put on the queue
    queued_by,          \* for each queue entry, the thread that put it
    \* one call of TemplateResolver.resolve on its own
    template,
    json_data,
    resolved            \* << >> before the call returns, then << its result >>

vars == << cfg, pc, arg, seed_i, feed_i, cur, todo, url_queue,
           unfinished_tasks, seen_urls, stop_event, results,
           processed_count, error_count, last_request_time, now, lock, wake,
           interrupted, grants, acquired, dequeued, completed, fetched,
           pushes, queued_by, template, json_data, resolved >>

loopvars == << seed_i, feed_i, cur, todo >>
queuevars == << url_queue, unfinished_tasks, pushes, queued_by >>
sinkvars == << results, processed_count, error_count >>
limitervars == << last_request_time, lock, wake, grants, acquired >>
countvars == << dequeued, completed, fetched >>
resolvervars == << template, json_data, resolved >>

\* WebCrawler.__init__: a falsy option takes its default.
DefaultConcurrency == 1
DefaultRateLimit == 10
DefaultQueueThreshold == 100

result_template == cfg.resultTemplate
continue_template == cfg.continueTemplate
concurrency == IF cfg.concurrency # 0 THEN cfg.concurrency ELSE DefaultConcurrency
rate_limit == IF cfg.rateLimit # 0 THEN cfg.rateLimit ELSE DefaultRateLimit
queue_threshold ==
    IF cfg.queueThreshold # 0 THEN cfg.queueThreshold ELSE DefaultQueueThreshold
remove_duplicates == cfg.removeDuplicates

\* RateLimiter.__init__
requests_per_second == rate_limit
min_interval ==
    IF requests_per_second > 0 THEN TicksPerSecond \div requests_per_second ELSE 0

Pool == 1..concurrency

Doc(url) == IF cfg.cyclic THEN CyclicWeb(url) ELSE AcyclicWeb(url)

\* The configurations and inputs a run starts from.  seedUrls and records
\* are sequences of URLs; a record without a url field is None.  A negative
\* rateLimit, an unset (0) queueThreshold or concurrency are options too.
\* sigint says whether the operator may interrupt the run.
BaseConfig ==
    [seedUrls |-> << >>, hasInput |-> FALSE, records |-> << >>,
     resultTemplate |-> << "${id}" >>, continueTemplate |-> None,
     concurrency |-> MaxWorkers, rateLimit |-> -1, queueThreshold |-> 1,
     removeDuplicates |-> FALSE, cyclic |-> FALSE, sigint |-> FALSE]

\* Seeds only, with a continuation template, on the acyclic site.
SeedOnlyConfigs ==
    { [BaseConfig EXCEPT !.seedUrls = << U1 >>,
                         !.continueTemplate = << "${next}" >>,
                         !.concurrency = n, !.removeDuplicates = d] :
        n \in {1, MaxWorkers}, d \in BOOLEAN }

\* The same on the cyclic site, with removeDuplicates: without it the crawl
\* of a cycle is endless.
CyclicConfigs ==
    { [BaseConfig EXCEPT !.seedUrls = << U1 >>,
                         !.continueTemplate = << "${next}" >>,
                         !.concurrency = 2, !.removeDuplicates = TRUE,
                         !.cyclic = TRUE] }

\* Two seeds fetched side by side under a rate limit of 5/s, or of 0.
RateConfigs ==
    { [BaseConfig EXCEPT !.seedUrls = << U2, U3 >>, !.concurrency = 2,
                         !.rateLimit = r] : r \in {0, 5} }

\* An input source, beside a seed whose document links to a fed URL.
FeederConfigs ==
    { [BaseConfig EXCEPT !.seedUrls = << U2 >>, !.hasInput = TRUE,
                         !.records = << U3, None, U3 >>,
                         !.continueTemplate = << "${next}" >>,
                         !.concurrency = 0, !.sigint = TRUE,
                         !.removeDuplicates = d] : d \in BOOLEAN }
    \cup
    { [BaseConfig EXCEPT !.hasInput = TRUE, !.records = << U2, U3 >>,
                         !.concurrency = 2, !.queueThreshold = 0] }

Configs ==
    SeedOnlyConfigs \cup CyclicConfigs \cup RateConfigs \cup FeederConfigs

StartTime == TicksPerSecond

\* The state after WebCrawler.__init__ and RateLimiter.__init__.
CrawlerInit ==
    /\ pc = [t \in Threads |-> IF t = Main THEN "seed" ELSE "idle"]
    /\ arg = [t \in Threads |-> None]
    /\ seed_i = 1
    /\ feed_i = 1
    /\ cur = [w \in Workers |-> None]
    /\ todo = [w \in Workers |-> << >>]
    /\ url_queue = << >>
    /\ unfinished_tasks = 0
    /\ seen_urls = {}
    /\ stop_event = FALSE
    /\ results = << >>
    /\ processed_count = 0
    /\ error_count = 0
    /\ last_request_time = 0
    /\ now = StartTime
    /\ lock = {}
    /\ wake = [w \in Workers |-> 0]
    /\ interrupted = FALSE
    /\ grants = << >>
    /\ acquired = [w \in Workers |-> FALSE]
    /\ dequeued = [w \in Workers |-> 0]
    /\ completed = [w \in Workers |-> 0]
    /\ fetched = [w \in Workers |-> "none"]
    /\ pushes = [u \in Urls |-> 0]
    /\ queued_by = << >>

Init ==
    /\ cfg \in Configs
    /\ CrawlerInit
    /\ template = None
    /\ json_data = << >>
    /\ resolved = << >>

\* ---- add_url --------------------------------------------------------
\* Where a thread goes when its add_url returns.
Ret(t) == IF t = Main THEN "seed" ELSE IF t = Feeder THEN "f_loop" ELSE "cont"

\* Entering add_url(url): `if not url: return`, then the branch on
\* remove_duplicates.  Nothing shared is read.
AddUrlEntry(t, url) ==
    IF url = None THEN Ret(t)
    ELSE IF remove_duplicates THEN "au_check" ELSE "au_put"

\* An add_url whose test of the seen set never finds the url.
AuCheckNeverSeen(t) ==
    /\ pc[t] = "au_check"
    /\ pc' = [pc EXCEPT ![t] = "au_add"]
    /\ UNCHANGED << cfg, resolvervars, arg, loopvars, queuevars, seen_urls,
                    stop_event, sinkvars, limitervars, now, interrupted,
                    countvars >>

\* `if url in self.seen_urls: return`
AuCheck(t) ==
    /\ pc[t] = "au_check"
    /\ pc' = [pc EXCEPT ![t] = IF arg[t] \in seen_urls THEN Ret(t) ELSE "au_add"]
    /\ UNCHANGED << cfg, resolvervars, arg, loopvars, queuevars, seen_urls, stop_event,
                    sinkvars, limitervars, now, interrupted, countvars >>

\* `self.seen_urls.add(url)`
AuAdd(t) ==
    /\ pc[t] = "au_add"
    /\ seen_urls' = seen_urls \cup {arg[t]}
    /\ pc' = [pc EXCEPT ![t] = "au_put"]
    /\ UNCHANGED << cfg, resolvervars, arg, loopvars, queuevars, stop_event, sinkvars,
                    limitervars, now, interrupted, countvars >>

\* `self.url_queue.put(url)`: Queue.put appends the entry and counts it as
\* unfinished under the queue's mutex.
AuPut(t) ==
    /\ pc[t] = "au_put"
    /\ url_queue' = Append(url_queue, arg[t])
    /\ unfinished_tasks' = unfinished_tasks + 1
    /\ pushes' = [pushes EXCEPT ![arg[t]] = @ + 1]
    /\ queued_by' = Append(queued_by, t)
    /\ pc' = [pc EXCEPT ![t] = Ret(t)]
    /\ UNCHANGED << cfg, resolvervars, arg, loopvars, seen_urls, stop_event, sinkvars,
                    limitervars, now, interrupted, countvars >>

\* ---- crawl ----------------------------------------------------------
\* `for url in seed_urls: self.add_url(url)`, before any thread is started.
Seed ==
    /\ pc[Main] = "seed"
    /\ IF seed_i > Len(cfg.seedUrls)
       THEN /\ pc' = [pc EXCEPT ![Main] = "start"]
            /\ UNCHANGED << arg, seed_i >>
       ELSE /\ arg' = [arg EXCEPT ![Main] = cfg.seedUrls[seed_i]]
            /\ seed_i' = seed_i + 1
            /\ pc' = [pc EXCEPT ![Main] = AddUrlEntry(Main, cfg.seedUrls[seed_i])]
    /\ UNCHANGED << cfg, resolvervars, feed_i, cur, todo, queuevars, seen_urls, stop_event,
                    sinkvars, limitervars, now, interrupted, countvars >>

\* The input thread and `concurrency` worker threads are started.
StartThreads ==
    /\ pc[Main] = "start"
    /\ pc' = [t \in Threads |->
                IF t = Main THEN "join"
                ELSE IF t = Feeder THEN "f_begin"
                ELSE IF t \in Pool THEN "loop" ELSE pc[t]]
    /\ UNCHANGED << cfg, resolvervars, arg, loopvars, queuevars, seen_urls, stop_event,
                    sinkvars, limitervars, now, interrupted, countvars >>

\* `self.url_queue.join()` returns once unfinished_tasks is zero.
Join ==
    /\ pc[Main] = "join"
    /\ unfinished_tasks = 0
    /\ pc' = [pc EXCEPT ![Main] = "sleep"]
    /\ UNCHANGED << cfg, resolvervars, arg, loopvars, queuevars, seen_urls, stop_event,
                    sinkvars, limitervars, now, interrupted, countvars >>

\* The double check with its test inverted.
CheckEmptyInverted ==
    /\ pc[Main] = "sleep"
    /\ pc' = [pc EXCEPT ![Main] = IF url_queue # << >> THEN "set_stop" ELSE "join"]
    /\ UNCHANGED << cfg, resolvervars, arg, loopvars, queuevars, seen_urls,
                    stop_event, sinkvars, limitervars, now, interrupted,
                    countvars >>

\* `time.sleep(1)`, then `if self.url_queue.empty(): break`.
CheckEmpty ==
    /\ pc[Main] = "sleep"
    /\ pc' = [pc EXCEPT ![Main] = IF url_queue = << >> THEN "set_stop" ELSE "join"]
    /\ UNCHANGED << cfg, resolvervars, arg, loopvars, queuevars, seen_urls, stop_event,
                    sinkvars, limitervars, now, interrupted, countvars >>

\* A crawl() without the `except KeyboardInterrupt`: the interrupt leaves
\* crawl() as an exception.
KeyboardInterruptUncaught ==
    /\ cfg.sigint
    /\ pc[Main] \in {"join", "sleep"}
    /\ interrupted' = TRUE
    /\ pc' = [pc EXCEPT ![Main] = "raised"]
    /\ UNCHANGED << cfg, resolvervars, arg, loopvars, queuevars, seen_urls,
                    stop_event, sinkvars, limitervars, now, countvars >>

\* `except KeyboardInterrupt`: raised in the main thread inside the try.
KeyboardInterrupt ==
    /\ cfg.sigint
    /\ pc[Main] \in {"join", "sleep"}
    /\ interrupted' = TRUE
    /\ pc' = [pc EXCEPT ![Main] = "set_stop"]
    /\ UNCHANGED << cfg, resolvervars, arg, loopvars, queuevars, seen_urls, stop_event,
                    sinkvars, limitervars, now, countvars >>

\* `self.stop_event.set()`
SetStop ==
    /\ pc[Main] = "set_stop"
    /\ stop_event' = TRUE
    /\ pc' = [pc EXCEPT ![Main] = "join_workers"]
    /\ UNCHANGED << cfg, resolvervars, arg, loopvars, queuevars, seen_urls, sinkvars,
                    limitervars, now, interrupted, countvars >>

\* `worker.join(timeout=5)` for each worker returns when the worker has
\* exited or the timeout has passed; then `return self.results`.
JoinWorkers ==
    /\ pc[Main] = "join_workers"
    /\ pc' = [pc EXCEPT ![Main] = "done"]
    /\ UNCHANGED << cfg, resolvervars, arg, loopvars, queuevars, seen_urls, stop_event,
                    sinkvars, limitervars, now, interrupted, countvars >>

\* ---- load_input -----------------------------------------------------
\* `if not self.step.input: return`, else readJsons(), which may raise.
LoadInput ==
    /\ pc[Feeder] = "f_begin"
    /\ \E read_ok \in BOOLEAN :
         pc' = [pc EXCEPT ![Feeder] =
                   IF cfg.hasInput /\ read_ok THEN "f_loop" ELSE "f_done"]
    /\ UNCHANGED << cfg, resolvervars, arg, loopvars, queuevars, seen_urls, stop_event,
                    sinkvars, limitervars, now, interrupted, countvars >>

\* The test with `>` for `>=`.
QueueOverThreshold == Len(url_queue) > queue_threshold

\* The Feeder's test before a record: `qsize() >= self.queue_threshold`.
QueueTooLarge == Len(url_queue) >= queue_threshold

\* One round of `for record in records`: the wait on the threshold, then
\* `url = record.get('url')` and the call of add_url.  While the queue is
\* too large the Feeder sleeps and tests again, or returns on stop_event.
FeederLoop ==
    /\ pc[Feeder] = "f_loop"
    /\ IF feed_i > Len(cfg.records)
       THEN /\ pc' = [pc EXCEPT ![Feeder] = "f_done"]
            /\ UNCHANGED << arg, feed_i >>
       ELSE IF QueueTooLarge
       THEN /\ stop_event
            /\ pc' = [pc EXCEPT ![Feeder] = "f_done"]
            /\ UNCHANGED << arg, feed_i >>
       ELSE /\ arg' = [arg EXCEPT ![Feeder] = cfg.records[feed_i]]
            /\ feed_i' = feed_i + 1
            /\ pc' = [pc EXCEPT ![Feeder] = AddUrlEntry(Feeder, cfg.records[feed_i])]
    /\ UNCHANGED << cfg, resolvervars, seed_i, cur, todo, queuevars, seen_urls, stop_event,
                    sinkvars, limitervars, now, interrupted, countvars >>

\* ---- rate_limiter.py ------------------------------------------------
\* `sleep_time = self.min_interval - time_since_last`
SleepTime(time_since_last) == min_interval - time_since_last

\* A limiter that takes no lock.
LockIgnored == TRUE

\* acquire() may take the lock when no thread holds it.
LockFree == lock = {}

\* acquire() up to its sleep: the early return of a rate <= 0, else
\* `with self.lock`, `now = time.time()` and the choice to sleep.
Acquire(w) ==
    /\ pc[w] = "acquire"
    /\ IF requests_per_second <= 0
       THEN /\ pc' = [pc EXCEPT ![w] = "fetch"]
            /\ acquired' = [acquired EXCEPT ![w] = TRUE]
            /\ UNCHANGED << lock, wake >>
       ELSE /\ LockFree
            /\ lock' = {w}
            /\ wake' = [wake EXCEPT ![w] =
                          IF now - last_request_time < min_interval
                          THEN now + SleepTime(now - last_request_time)
                          ELSE now]
            /\ pc' = [pc EXCEPT ![w] = "rl_sleep"]
            /\ UNCHANGED acquired
    /\ UNCHANGED << cfg, resolvervars, arg, loopvars, queuevars, seen_urls, stop_event,
                    sinkvars, last_request_time, grants, now, interrupted,
                    countvars >>

\* The sleep, if any, is over: `self.last_request_time = time.time()`, the
\* lock is released and acquire() returns.
Stamp(w) ==
    /\ pc[w] = "rl_sleep"
    /\ now >= wake[w]
    /\ last_request_time' = now
    /\ grants' = Append(grants, now)
    /\ lock' = lock \ {w}
    /\ acquired' = [acquired EXCEPT ![w] = TRUE]
    /\ pc' = [pc EXCEPT ![w] = "fetch"]
    /\ UNCHANGED << cfg, resolvervars, arg, loopvars, queuevars, seen_urls, stop_event,
                    sinkvars, wake, now, interrupted, countvars >>

\* Time passes.  The clock is read only in acquire(), and only to compare
\* the time since the last grant with min_interval, so it need not run
\* further ahead of last_request_time than that.
Tick ==
    /\ requests_per_second > 0
    /\ now - last_request_time <= min_interval
    /\ now' = now + 1
    /\ UNCHANGED << cfg, resolvervars, pc, arg, loopvars, queuevars, seen_urls, stop_event,
                    sinkvars, limitervars, interrupted, countvars >>

\* ---- worker and process_url -----------------------------------------
\* `while not self.stop_event.is_set()`
Loop(w) ==
    /\ pc[w] = "loop"
    /\ pc' = [pc EXCEPT ![w] = IF stop_event THEN "exit" ELSE "get"]
    /\ UNCHANGED << cfg, resolvervars, arg, loopvars, queuevars, seen_urls, stop_event,
                    sinkvars, limitervars, now, interrupted, countvars >>

\* A worker whose task_done sits in a `finally`, and so runs after Empty too.
GetThenAlwaysDone(w) ==
    /\ pc[w] = "get"
    /\ IF url_queue # << >>
       THEN /\ cur' = [cur EXCEPT ![w] = Head(url_queue)]
            /\ url_queue' = Tail(url_queue)
            /\ queued_by' = Tail(queued_by)
            /\ dequeued' = [dequeued EXCEPT ![w] = @ + 1]
            /\ pc' = [pc EXCEPT ![w] = "acquire"]
            /\ UNCHANGED unfinished_tasks
       ELSE /\ pc' = [pc EXCEPT ![w] = "loop"]
            /\ unfinished_tasks' =
                  IF unfinished_tasks - 1 < 0 THEN unfinished_tasks
                  ELSE unfinished_tasks - 1
            /\ UNCHANGED << cur, url_queue, queued_by, dequeued >>
    /\ UNCHANGED << cfg, resolvervars, arg, seed_i, feed_i, todo, pushes,
                    seen_urls, stop_event, sinkvars, limitervars, now,
                    interrupted, completed, fetched >>

\* `url = self.url_queue.get(timeout=1)`: an entry, or Empty after the
\* timeout on an empty queue.
Get(w) ==
    /\ pc[w] = "get"
    /\ IF url_queue # << >>
       THEN /\ cur' = [cur EXCEPT ![w] = Head(url_queue)]
            /\ url_queue' = Tail(url_queue)
            /\ queued_by' = Tail(queued_by)
            /\ dequeued' = [dequeued EXCEPT ![w] = @ + 1]
            /\ pc' = [pc EXCEPT ![w] = "acquire"]
       ELSE /\ pc' = [pc EXCEPT ![w] = "loop"]
            /\ UNCHANGED << cur, url_queue, queued_by, dequeued >>
    /\ UNCHANGED << cfg, resolvervars, arg, seed_i, feed_i, todo, unfinished_tasks, pushes,
                    seen_urls, stop_event, sinkvars, limitervars, now,
                    interrupted, completed, fetched >>

\* What requests.get and response.json() can end in.
Outcomes == {"ok", "status", "json", "raise"}

\* A process_url that lets a failure escape to the worker's own `except`,
\* which is past the call of task_done.
FetchUncaught(w) ==
    /\ pc[w] = "fetch"
    /\ \E outcome \in Outcomes :
         /\ fetched' = [fetched EXCEPT ![w] = outcome]
         /\ IF outcome = "ok"
            THEN /\ results' = results \o Resolve(result_template, Doc(cur[w]))
                 /\ todo' = [todo EXCEPT ![w] =
                               IF continue_template # None
                               THEN Resolve(continue_template, Doc(cur[w]))
                               ELSE << >>]
                 /\ pc' = [pc EXCEPT ![w] = "cont"]
                 /\ UNCHANGED error_count
            ELSE /\ error_count' = error_count + 1
                 /\ pc' = [pc EXCEPT ![w] = "loop"]
                 /\ UNCHANGED << results, todo >>
    /\ UNCHANGED << cfg, resolvervars, arg, seed_i, feed_i, cur, queuevars,
                    seen_urls, stop_event, processed_count, limitervars, now,
                    interrupted, dequeued, completed >>

\* A process_url without the test of the status code: the body of an error
\* response is read like any other.
FetchIgnoresStatus(w) ==
    /\ pc[w] = "fetch"
    /\ \E outcome \in Outcomes :
         /\ fetched' = [fetched EXCEPT ![w] = outcome]
         /\ IF outcome \in {"ok", "status"}
            THEN /\ results' = results \o Resolve(result_template, Doc(cur[w]))
                 /\ todo' = [todo EXCEPT ![w] =
                               IF continue_template # None
                               THEN Resolve(continue_template, Doc(cur[w]))
                               ELSE << >>]
                 /\ pc' = [pc EXCEPT ![w] = "cont"]
                 /\ UNCHANGED error_count
            ELSE /\ error_count' = error_count + 1
                 /\ pc' = [pc EXCEPT ![w] = "task_done"]
                 /\ UNCHANGED << results, todo >>
    /\ UNCHANGED << cfg, resolvervars, arg, seed_i, feed_i, cur, queuevars,
                    seen_urls, stop_event, processed_count, limitervars, now,
                    interrupted, dequeued, completed >>

\* A failure that escapes both `except` clauses and ends the worker thread.
FetchFatal(w) ==
    /\ pc[w] = "fetch"
    /\ \E outcome \in Outcomes :
         /\ fetched' = [fetched EXCEPT ![w] = outcome]
         /\ IF outcome = "ok"
            THEN /\ results' = results \o Resolve(result_template, Doc(cur[w]))
                 /\ todo' = [todo EXCEPT ![w] =
                               IF continue_template # None
                               THEN Resolve(continue_template, Doc(cur[w]))
                               ELSE << >>]
                 /\ pc' = [pc EXCEPT ![w] = "cont"]
                 /\ UNCHANGED error_count
            ELSE /\ error_count' = error_count + 1
                 /\ pc' = [pc EXCEPT ![w] = "exit"]
                 /\ UNCHANGED << results, todo >>
    /\ UNCHANGED << cfg, resolvervars, arg, seed_i, feed_i, cur, queuevars,
                    seen_urls, stop_event, processed_count, limitervars, now,
                    interrupted, dequeued, completed >>

\* process_url after acquire(): the GET, the status test, the JSON parse,
\* the result lines appended to the sink, and continue_urls resolved.
\* Every failure adds one to error_count and returns.
Fetch(w) ==
    /\ pc[w] = "fetch"
    /\ \E outcome \in Outcomes :
         /\ fetched' = [fetched EXCEPT ![w] = outcome]
         /\ IF outcome = "ok"
            THEN /\ results' = results \o Resolve(result_template, Doc(cur[w]))
                 /\ todo' = [todo EXCEPT ![w] =
                               IF continue_template # None
                               THEN Resolve(continue_template, Doc(cur[w]))
                               ELSE << >>]
                 /\ pc' = [pc EXCEPT ![w] = "cont"]
                 /\ UNCHANGED error_count
            ELSE /\ error_count' = error_count + 1
                 /\ pc' = [pc EXCEPT ![w] = "task_done"]
                 /\ UNCHANGED << results, todo >>
    /\ UNCHANGED << cfg, resolvervars, arg, seed_i, feed_i, cur, queuevars, seen_urls,
                    stop_event, processed_count, limitervars, now,
                    interrupted, dequeued, completed >>

\* A process_url that calls task_done inside its loop over continue_urls.
ContDoneInLoop(w) ==
    /\ pc[w] = "cont"
    /\ IF todo[w] = << >>
       THEN /\ processed_count' = processed_count + 1
            /\ pc' = [pc EXCEPT ![w] = "task_done"]
            /\ UNCHANGED << arg, todo, unfinished_tasks >>
       ELSE /\ arg' = [arg EXCEPT ![w] = Head(todo[w])]
            /\ todo' = [todo EXCEPT ![w] = Tail(todo[w])]
            /\ pc' = [pc EXCEPT ![w] = AddUrlEntry(w, Head(todo[w]))]
            /\ unfinished_tasks' =
                  IF unfinished_tasks - 1 < 0 THEN unfinished_tasks
                  ELSE unfinished_tasks - 1
            /\ UNCHANGED processed_count
    /\ UNCHANGED << cfg, resolvervars, seed_i, feed_i, cur, url_queue, pushes,
                    queued_by, seen_urls, stop_event, results, error_count,
                    limitervars, now, interrupted, countvars >>

\* A process_url that counts inside its loop over continue_urls.
ContCountsInLoop(w) ==
    /\ pc[w] = "cont"
    /\ IF todo[w] = << >>
       THEN /\ pc' = [pc EXCEPT ![w] = "task_done"]
            /\ UNCHANGED << arg, todo, processed_count >>
       ELSE /\ arg' = [arg EXCEPT ![w] = Head(todo[w])]
            /\ todo' = [todo EXCEPT ![w] = Tail(todo[w])]
            /\ pc' = [pc EXCEPT ![w] = AddUrlEntry(w, Head(todo[w]))]
            /\ processed_count' = processed_count + 1
    /\ UNCHANGED << cfg, resolvervars, seed_i, feed_i, cur, queuevars, seen_urls,
                    stop_event, results, error_count, limitervars, now,
                    interrupted, countvars >>

\* `for continue_url in continue_urls: self.add_url(continue_url)`, then
\* `self.processed_count += 1`.
Cont(w) ==
    /\ pc[w] = "cont"
    /\ IF todo[w] = << >>
       THEN /\ processed_count' = processed_count + 1
            /\ pc' = [pc EXCEPT ![w] = "task_done"]
            /\ UNCHANGED << arg, todo >>
       ELSE /\ arg' = [arg EXCEPT ![w] = Head(todo[w])]
            /\ todo' = [todo EXCEPT ![w] = Tail(todo[w])]
            /\ pc' = [pc EXCEPT ![w] = AddUrlEntry(w, Head(todo[w]))]
            /\ UNCHANGED processed_count
    /\ UNCHANGED << cfg, resolvervars, seed_i, feed_i, cur, queuevars, seen_urls,
                    stop_event, results, error_count, limitervars, now,
                    interrupted, countvars >>

\* `self.url_queue.task_done()`: Queue.task_done raises ValueError rather
\* than take unfinished_tasks below zero; the worker logs it and goes on.
TaskDone(w) ==
    /\ pc[w] = "task_done"
    /\ unfinished_tasks' =
          IF unfinished_tasks - 1 < 0 THEN unfinished_tasks
          ELSE unfinished_tasks - 1
    /\ completed' = [completed EXCEPT ![w] = @ + 1]
    /\ fetched' = [fetched EXCEPT ![w] = "none"]
    /\ acquired' = [acquired EXCEPT ![w] = FALSE]
    /\ pc' = [pc EXCEPT ![w] = "loop"]
    /\ UNCHANGED << cfg, resolvervars, arg, loopvars, url_queue, pushes, queued_by,
                    seen_urls, stop_event, sinkvars, last_request_time, lock,
                    wake, grants, now, interrupted, dequeued >>

\* ---- the program ----------------------------------------------------
MainStep ==
    \/ Seed
    \/ StartThreads
    \/ Join
    \/ CheckEmpty
    \/ SetStop
    \/ JoinWorkers

FeederStep ==
    \/ LoadInput
    \/ FeederLoop

WorkerStep(w) ==
    \/ Loop(w)
    \/ Get(w)
    \/ Acquire(w)
    \/ Stamp(w)
    \/ Fetch(w)
    \/ Cont(w)
    \/ TaskDone(w)

AddUrlStep(t) ==
    \/ AuCheck(t)
    \/ AuAdd(t)
    \/ AuPut(t)

Next ==
    \/ MainStep
    \/ KeyboardInterrupt
    \/ FeederStep
    \/ \E w \in Workers : WorkerStep(w)
    \/ \E t \in Threads : AddUrlStep(t)
    \/ Tick

Spec == Init /\ [][Next]_vars

\* Threads are scheduled fairly, the clock advances, and every GET returns
\* or raises; a KeyboardInterrupt may or may not come.
ThreadStep(t) ==
    \/ t = Main /\ MainStep
    \/ t = Feeder /\ FeederStep
    \/ t \in Workers /\ WorkerStep(t)
    \/ AddUrlStep(t)

Fairness == WF_vars(Tick) /\ \A t \in Threads : WF_vars(ThreadStep(t))

FairSpec == Init /\ [][Next]_vars /\ Fairness

\* ---- resolve on its own ---------------------------------------------
Tokens == {"x", "${a}", "${b}", "${!}"}
Templates == UNION { [1..n -> Tokens] : n \in 0..MaxTemplateLen }

\* str(value) of a match; a value may itself read like a placeholder.
Values == { << "1" >>, << "2" >>, << "${b}" >> }
MatchLists == UNION { [1..n -> Values] : n \in 0..MaxMatches }
Docs == [{"${a}", "${b}"} -> MatchLists]

InitResolve ==
    /\ cfg = BaseConfig
    /\ CrawlerInit
    /\ template \in Templates
    /\ json_data \in Docs
    /\ resolved = << >>

ResolveCall ==
    /\ resolved = << >>
    /\ resolved' = << Resolve(template, json_data) >>
    /\ UNCHANGED << cfg, pc, arg, loopvars, queuevars, seen_urls, stop_event,
                    sinkvars, limitervars, now, interrupted, countvars,
                    template, json_data >>

NextResolve == ResolveCall

SpecResolve == InitResolve /\ [][NextResolve]_vars

\* =====================================================================
\* The claims
\* =====================================================================

\* A worker holds a url it dequeued and has not yet called task_done for.
InFlight(w) ==
    pc[w] \in {"acquire", "rl_sleep", "fetch", "cont", "au_check", "au_add",
               "au_put", "task_done"}

InFlightWorkers == { w \in Workers : InFlight(w) }

\* C1: without an external interrupt, crawl() sets the shutdown flag only
\* in a state where the pending-work counter is zero.
C1_StopOnlyWhenDrained ==
    (~interrupted /\ pc[Main] = "set_stop") => unfinished_tasks = 0

\* C2: without an external interrupt and with an input source, crawl() has
\* not set the shutdown flag, nor returned, before the Feeder has finished.
C2_StopOnlyAfterFeeder ==
    (~interrupted /\ cfg.hasInput
        /\ (stop_event \/ pc[Main] \in {"join_workers", "done"}))
    => pc[Feeder] = "f_done"

\* C3: with seeds only and a finite acyclic site the crawl terminates:
\* crawl() sets the shutdown flag and returns, and, unless interrupted, not
\* while a url is queued or in the hands of a worker.
SeedOnlyRun == ~cfg.hasInput /\ ~cfg.cyclic

Returned == stop_event /\ pc[Main] = "done"

C3_SeedOnlyTerminates ==
    /\ [](SeedOnlyRun /\ ~interrupted /\ pc[Main] \in {"join_workers", "done"}
            => unfinished_tasks = 0 /\ url_queue = << >> /\ InFlightWorkers = {})
    /\ (SeedOnlyRun ~> Returned)

C3_Witness ==
    /\ SeedOnlyRun /\ ~interrupted /\ Returned
    /\ continue_template # None
    /\ processed_count >= 3

\* C4: with removeDuplicates no url is put on the queue more than once.
C4_PushedAtMostOnce ==
    remove_duplicates => \A u \in Urls : pushes[u] <= 1

\* C5, as claimed: right after a put by the Feeder the queue holds at most
\* queueThreshold entries.
C5_FeederPushWithinThreshold ==
    [][(pc[Feeder] = "au_put" /\ pc'[Feeder] # "au_put")
          => Len(url_queue') <= queue_threshold]_vars

\* C5, amended: the queue never holds more than queueThreshold entries put
\* by the Feeder; entries put by workers may take its size above that.
FeederQueued == Cardinality({ i \in 1..Len(queued_by) : queued_by[i] = Feeder })

C5_FeederEntriesWithinThreshold ==
    /\ Len(queued_by) = Len(url_queue)
    /\ FeederQueued <= queue_threshold

C5_Witness ==
    /\ FeederQueued >= 1
    /\ Len(url_queue) > queue_threshold
    /\ pc[Feeder] = "f_loop"

\* C6: each worker's completions trail its dequeues by one exactly while it
\* holds a url, and a worker holding a url comes to complete it, whether
\* the fetch succeeded or failed.
C6_OneCompletionPerDequeue ==
    /\ [](\A w \in Workers :
            dequeued[w] - completed[w] = IF InFlight(w) THEN 1 ELSE 0)
    /\ \A w \in Workers : InFlight(w) ~> (completed[w] = dequeued[w])

C6_Witness ==
    \E w \in Workers :
        /\ error_count >= 1 /\ processed_count >= 1
        /\ completed[w] >= 2 /\ completed[w] = dequeued[w]

\* C7: the pending-work counter is the number of queued urls plus the
\* number of workers holding one, and is never negative.
C7_CounterIsPendingWork ==
    /\ unfinished_tasks = Len(url_queue) + Cardinality(InFlightWorkers)
    /\ unfinished_tasks >= 0

C7_Witness ==
    /\ url_queue # << >>
    /\ Cardinality(InFlightWorkers) >= 2
    /\ \E w \in Workers : completed[w] >= 1

\* C8: under a positive rate a worker is at its GET only after its own
\* acquire() returned, and successive grants, by whichever workers, are at
\* least min_interval apart.
C8_GrantsSpaced ==
    requests_per_second > 0 =>
        /\ \A i \in 1..(Len(grants) - 1) : grants[i + 1] - grants[i] >= min_interval
        /\ \A w \in Workers : pc[w] = "fetch" => acquired[w]
        /\ min_interval > 0

C8_Witness ==
    /\ requests_per_second > 0
    /\ Len(grants) >= 2
    /\ grants[2] - grants[1] = min_interval
    /\ \E v, w \in Workers : v # w /\ pc[v] = "fetch" /\ pc[w] = "fetch"

\* C9: a crawler configured with rateLimit <= 0 never limits: no worker
\* waits in acquire(), for the lock or asleep, and nothing is granted.
Waiting(w) ==
    \/ pc[w] = "rl_sleep" /\ now < wake[w]
    \/ pc[w] = "acquire" /\ requests_per_second > 0 /\ ~LockFree

C9_NonPositiveRateNeverLimits ==
    cfg.rateLimit <= 0 => \A w \in Workers : ~Waiting(w)

\* C10: for a template whose placeholders are textually distinct, resolve
\* returns one string per combination of one match per placeholder, the
\* first placeholder's match varying slowest.
DistinctPlaceholders(t) ==
    \A i, j \in 1..Len(FindAll(t)) :
        i # j => FindAll(t)[i] # FindAll(t)[j]

NoParseFailure(t) == \A i \in 1..Len(FindAll(t)) : ~ParseFails(FindAll(t)[i])

\* m1 * ... * mk
RECURSIVE Product(_, _)
Product(phs, doc) ==
    IF phs = << >> THEN 1 ELSE Len(Find(Head(phs), doc)) * Product(Tail(phs), doc)

\* The match of the i-th placeholder in the n-th combination.
Choice(n, i, phs, doc) ==
    Find(phs[i], doc)[(((n - 1) \div Product(SubSeq(phs, i + 1, Len(phs)), doc))
                        % Len(Find(phs[i], doc))) + 1]

\* The template with each placeholder replaced by its match in the n-th
\* combination, and nothing else changed.
RECURSIVE Substitute(_, _, _, _)
Substitute(t, n, phs, doc) ==
    IF t = << >> THEN << >>
    ELSE (IF IsPlaceholder(Head(t))
          THEN Choice(n, CHOOSE i \in 1..Len(phs) : phs[i] = Head(t), phs, doc)
          ELSE << Head(t) >>) \o Substitute(Tail(t), n, phs, doc)

Combinations(t, doc) ==
    [n \in 1..Product(FindAll(t), doc) |-> Substitute(t, n, FindAll(t), doc)]

Claimed(t) == t # << >> /\ DistinctPlaceholders(t) /\ NoParseFailure(t)

NoLaterPlaceholderInMatches(t, doc) ==
    \A i, j \in 1..Len(FindAll(t)) :
        i < j => \A v \in 1..Len(Find(FindAll(t)[i], doc)) :
                    \A k \in 1..Len(Find(FindAll(t)[i], doc)[v]) :
                        Find(FindAll(t)[i], doc)[v][k] # FindAll(t)[j]

TwoPathsOverOneList(t, doc) ==
    /\ Len(FindAll(t)) = 2
    /\ DistinctPlaceholders(t) /\ NoParseFailure(t)
    /\ Len(Find(FindAll(t)[1], doc)) = Len(Find(FindAll(t)[2], doc))
    /\ Len(Find(FindAll(t)[1], doc)) >= 1
    /\ NoLaterPlaceholderInMatches(t, doc)

\* The template with each placeholder replaced by its i-th match.
RECURSIVE SubstituteElement(_, _, _)
SubstituteElement(t, i, doc) ==
    IF t = << >> THEN << >>
    ELSE (IF IsPlaceholder(Head(t)) THEN Find(Head(t), doc)[i] ELSE << Head(t) >>)
         \o SubstituteElement(Tail(t), i, doc)

C11_OneStringPerListElement ==
    (resolved # << >> /\ TwoPathsOverOneList(template, json_data))
    => resolved[1] = [i \in 1..Len(Find(FindAll(template)[1], json_data)) |->
                         SubstituteElement(template, i, json_data)]

\* C12: resolve fails closed: an empty template, or a placeholder whose
\* path fails to parse or matches nothing, gives the empty sequence,
\* whatever the placeholders before it matched.
FailsToResolve(t, doc) ==
    \/ t = << >>
    \/ \E i \in 1..Len(FindAll(t)) :
          ParseFails(FindAll(t)[i]) \/ Find(FindAll(t)[i], doc) = << >>

C12_FailsClosed ==
    (resolved # << >> /\ FailsToResolve(template, json_data))
    => resolved[1] = << >>

C12_Witness ==
    /\ resolved = << << >> >>
    /\ Len(FindAll(template)) = 2
    /\ ~ParseFails(FindAll(template)[1])
    /\ Len(Find(FindAll(template)[1], json_data)) = 2
    /\ ~ParseFails(FindAll(template)[2])
    /\ Find(FindAll(template)[2], json_data) = << >>

\* C13: a fetch that ends in a non-200 status or in a body that is no JSON
\* adds exactly one to the error counter and leaves the processed counter,
\* the results and the queue as they were; the worker then completes the
\* entry, changing none of these, and the crawl still returns.
FetchFailed(w) == pc[w] = "task_done" /\ fetched[w] \in {"status", "json"}

C13_FailedFetchOnlyCounted ==
    /\ [][\A w \in Workers :
            (pc[w] = "fetch" /\ pc'[w] # "fetch"
                /\ fetched'[w] \in {"status", "json"})
            => /\ error_count' = error_count + 1
               /\ processed_count' = processed_count
               /\ results' = results
               /\ url_queue' = url_queue
               /\ unfinished_tasks' = unfinished_tasks
               /\ pc'[w] = "task_done"]_vars
    /\ [][\A w \in Workers :
            (FetchFailed(w) /\ pc'[w] # pc[w])
            => /\ UNCHANGED << error_count, processed_count, results, url_queue >>
               /\ completed'[w] = completed[w] + 1]_vars
    /\ \A w \in Workers : FetchFailed(w) ~> (completed[w] = dequeued[w])
    /\ (\E w \in Workers : FetchFailed(w)) ~> Returned

C13_Witness ==
    \E w \in Workers :
        /\ FetchFailed(w) /\ fetched[w] = "json"
        /\ error_count = 1 /\ processed_count >= 1
        /\ url_queue # << >> /\ results # << >>

\* C14: a KeyboardInterrupt that reaches crawl() while it waits ends the
\* wait for good: crawl() sets the shutdown flag and returns, also with
\* urls still queued or in the hands of workers.
C14_InterruptReturns ==
    /\ [](interrupted => pc[Main] \in {"set_stop", "join_workers", "done"})
    /\ [](interrupted /\ pc[Main] \in {"join_workers", "done"} => stop_event)
    /\ (interrupted ~> Returned)

C14_Witness ==
    /\ interrupted /\ Returned
    /\ url_queue # << >>
    /\ InFlightWorkers # {}

\* A template with two occurrences of one placeholder and no other, whose
\* matches do not hold the placeholder's own text.
TwoOccurrences(t, doc) ==
    /\ Len(FindAll(t)) = 2
    /\ FindAll(t)[1] = FindAll(t)[2]
    /\ NoParseFailure(t)
    /\ \A v \in 1..Len(Find(FindAll(t)[1], doc)) :
          \A k \in 1..Len(Find(FindAll(t)[1], doc)[v]) :
              Find(FindAll(t)[1], doc)[v][k] # FindAll(t)[1]

\* The template with the first occurrence of ph replaced by v1 and the
\* later ones by v2.
RECURSIVE SubstitutePair(_, _, _, _)
SubstitutePair(t, ph, v1, v2) ==
    IF t = << >> THEN << >>
    ELSE IF Head(t) = ph THEN v1 \o Replace(Tail(t), ph, v2)
    ELSE << Head(t) >> \o SubstitutePair(Tail(t), ph, v1, v2)

FetchNotOk(w) == pc[w] = "task_done" /\ fetched[w] # "ok"

C16_WorkersSurviveFailures ==
    /\ [](\A w \in Workers : pc[w] = "exit" => stop_event)
    /\ [][\A w \in Workers :
            (pc'[w] = "exit" /\ pc[w] # "exit") => (pc[w] = "loop" /\ stop_event)]_vars
    /\ \A w \in Workers : FetchNotOk(w) ~> (pc[w] = "get" \/ stop_event)

C16_Witness ==
    /\ concurrency = 1
    /\ error_count >= 2
    /\ pc[1] = "fetch"
    /\ ~stop_event

\* C17: a worker passes every continuation url of a document to add_url
\* before it calls task_done for the url of that document, so in a run
\* with seeds only the pending-work counter is not zero while a
\* continuation url of a document in hand is still to be enqueued.
ContinuationPending(w) ==
    todo[w] # << >> \/ pc[w] \in {"au_check", "au_add", "au_put"}

C17_ContinuationsBeforeCompletion ==
    /\ \A w \in Workers :
          pc[w] \in {"task_done", "loop", "get", "exit"}
          => todo[w] = << >>
    /\ ~cfg.hasInput =>
          \A w \in Workers : ContinuationPending(w) => unfinished_tasks >= 1

C17_Witness ==
    /\ ~cfg.hasInput
    /\ url_queue = << >>
    /\ unfinished_tasks = 1
    /\ \E w \in Workers : pc[w] = "au_put" /\ todo[w] # << >>

\* C18: once the shutdown flag is set every worker comes to leave its loop,
\* and a Feeder held back by the queue threshold returns without putting a
\* further record on the queue.
FeederHeldBack ==
    pc[Feeder] = "f_loop" /\ feed_i <= Len(cfg.records) /\ QueueTooLarge

C18_ShutdownReachesAllThreads ==
    /\ \A w \in Workers : stop_event ~> (pc[w] \in {"exit", "idle"})
    /\ stop_event ~> (pc[Feeder] = "f_done")
    /\ []((stop_event /\ FeederHeldBack) => [](pc[Feeder] # "au_put"))

\* C19: each call of process_url adds one to exactly one of processed_count
\* and error_count: their sum is the number of urls dequeued less the
\* workers still inside process_url, so with no worker inside process_url
\* it is the number of urls dequeued.
MidProcess(w) ==
    pc[w] \in {"acquire", "rl_sleep", "fetch", "cont", "au_check", "au_add",
               "au_put"}

RECURSIVE Total(_, _)
Total(f, n) == IF n = 0 THEN 0 ELSE f[n] + Total(f, n - 1)

C19_EveryUrlCountedOnce ==
    /\ processed_count + error_count =
          Total(dequeued, MaxWorkers) - Cardinality({ w \in Workers : MidProcess(w) })
    /\ (\A w \in Workers : ~MidProcess(w))
          => processed_count + error_count = Total(dequeued, MaxWorkers)

C19_Witness ==
    /\ \A w \in Workers : ~MidProcess(w) /\ dequeued[w] >= 1
    /\ processed_count >= 2
    /\ error_count >= 1

\* C20: with removeDuplicates and seeds only the crawl terminates, also on
\* a site whose links form a cycle: an add_url that finds its url in the
\* seen set puts nothing on the queue, and nothing leaves the seen set.
DedupSeedOnly == cfg.removeDuplicates /\ ~cfg.hasInput

====
